---- MODULE Spec2Model ----
(***************************************************************************)
(* text2cad-cli ("cad-forge"): the iteration engine.                       *)
(*                                                                         *)
(* The repository holds four revisions of the same single-file program:    *)
(*   "part_000"  src/unnamed/part_000                                      *)
(*   "part_001"  src/unnamed/part_001                                      *)
(*   "index_a"   src/index.ts, lines 1-527                                 *)
(*   "index_b"   src/index.ts, lines 528-1009                              *)
(* The variable rev says which revision is running; it never changes.      *)
(*                                                                         *)
(* Text (a model response, generated code, a request) is a sequence of     *)
(* lexemes, each a string.  The regular expressions of parseResponse are   *)
(* modelled by what they match on such sequences.                          *)
(***************************************************************************)
EXTENDS Integers, Sequences, FiniteSets, TLC

VARIABLES
    rev,          \* the revision of the program that is running
    slot,         \* ~/.cad-forge/state.json: [kind, data]
    pc,           \* per CLI process: where the command is
    cmd,          \* per process: "none" | "create" | "iterate"
    arg,          \* per process: the prompt or the feedback text
    state,        \* per process: CADSession.state, [kind, data]
    request,      \* per process: the message contents sent to the model
    model,        \* per process: the CADModel returned by parseResponse
    fullResponse, \* per process: the response text createModel collected
    err,          \* per process: the error that ended the command
    message,      \* per process: the message of the Error thrown by render
    tempDir,      \* per process: OpenSCADRenderer.tempDir is set
    workspace,    \* per process: the scratch directory exists on disk
    viewIdx,      \* per process: next view of the render loop
    renders,      \* per process: the renders array of render()
    projectState, \* per process: the state read back by the attach step
    nextId,       \* ids handed out by randomUUID so far
    clock,        \* timestamps handed out by new Date() so far
    overlap,      \* history: a command was started while another was running
    response,     \* parser harness: the raw response text
    entries,      \* parser harness: the view entries the response was built from
    block,        \* parser harness: the code block form the response was built from
    layout,       \* parser harness: the layout the entries were written in
    yaml,         \* parser harness: what the yaml library returns (index_b only)
    parsed        \* parser harness: the outcome of parseResponse

vars == <<rev, slot, pc, cmd, arg, state, request, fullResponse, model, err, message, tempDir,
          workspace, viewIdx, renders, projectState, nextId, clock, overlap,
          response, entries, block, layout, yaml, parsed>>

machineVars == <<slot, pc, cmd, arg, state, request, fullResponse, model, err, message, tempDir,
                 workspace, viewIdx, renders, projectState, nextId, clock, overlap>>

harnessVars == <<response, entries, block, layout, yaml, parsed>>

Revisions == {"part_000", "part_001", "index_a", "index_b"}

(***************************************************************************)
(* Lexemes                                                                 *)
(***************************************************************************)
DQ == "\""
SQ == "'"
SP == " "
IND == "  "
NL == "\n"
NLNL == "\n\n"
OpenTag == "<openscad>"
CloseTag == "</openscad>"
ViewsKey == "views:"

Whitespace == {SP, IND, NL, NLNL}

IsWs(t) == t \in Whitespace

\* String.prototype.toLowerCase, and the i flag of the regular expressions
toLowerCase(t) ==
    CASE t = "<OPENSCAD>" -> OpenTag
      [] t = "</OPENSCAD>" -> CloseTag
      [] t = "VIEWS:" -> ViewsKey
      [] t = "Views:" -> ViewsKey
      [] t = "NAME" -> "name"
      [] t = "ANGLE" -> "angle"
      [] t = "DISTANCE" -> "distance"
      [] t = "Front" -> "front"
      [] t = "Side" -> "side"
      [] t = "Top" -> "top"
      [] t = "ISO" -> "iso"
      [] OTHER -> t

\* the decimal literals of the alphabet and their values
NumTable ==
    ("0" :> 0) @@ ("5" :> 5) @@ ("15" :> 15) @@ ("35" :> 35) @@ ("45" :> 45)
    @@ ("50" :> 50) @@ ("90" :> 90) @@ ("100" :> 100) @@ ("150" :> 150)
    @@ ("180" :> 180) @@ ("200" :> 200) @@ ("250" :> 250) @@ ("300" :> 300)

IsDigits(t) == t \in DOMAIN NumTable

\* \w+ lexemes: identifiers, keywords and decimal literals
WordTokens ==
    {"front", "Front", "top", "Top", "iso", "ISO", "side", "Side", "back",
     "left", "right", "bottom", "detail", "x", "cube", "sphere",
     "name", "NAME", "angle", "ANGLE", "distance", "DISTANCE"}
    \cup DOMAIN NumTable

IsWord(t) == t \in WordTokens

Min(S) == CHOOSE x \in S : \A y \in S : x <= y

\* the first position at or after i that holds no whitespace (Len(s)+1 if none)
SkipWs(s, i) == Min({j \in i..(Len(s) + 1) : j = Len(s) + 1 \/ ~IsWs(s[j])})

\* String.prototype.trim
trim(s) ==
    LET keep == {j \in 1..Len(s) : ~IsWs(s[j])}
    IN  IF keep = {} THEN <<>>
        ELSE SubSeq(s, Min(keep), CHOOSE x \in keep : \A y \in keep : y <= x)

LowerAll(s) == [i \in 1..Len(s) |-> toLowerCase(s[i])]

(***************************************************************************)
(* Regular expressions of parseResponse                                    *)
(***************************************************************************)
NoMatch == [found |-> FALSE, group |-> <<>>]

Matched(g) == [found |-> TRUE, group |-> g]

IsOpenTag(t, ignoreCase) ==
    IF ignoreCase THEN toLowerCase(t) = OpenTag ELSE t = OpenTag

IsCloseTag(t, ignoreCase) ==
    IF ignoreCase THEN toLowerCase(t) = CloseTag ELSE t = CloseTag

\* codeMatch with the end marker optional, /<openscad>([\s\S]*?)(<\/openscad>|$)/:
\* a start marker alone opens a block that runs to the end of the text
codeMatch_openEnded(r, ignoreCase) ==
    LET starts == {i \in 1..Len(r) : IsOpenTag(r[i], ignoreCase)}
    IN  IF starts = {} THEN NoMatch
        ELSE LET i == Min(starts)
                 j == Min({k \in (i + 1)..(Len(r) + 1) :
                              k = Len(r) + 1 \/ IsCloseTag(r[k], ignoreCase)})
             IN  Matched(SubSeq(r, i + 1, j - 1))

\* response.match(/<openscad>([\s\S]*?)<\/openscad>/i), the i flag as given:
\* the leftmost start marker that has an end marker after it, and the text
\* up to the first such end marker
codeMatch(r, ignoreCase) ==
    LET starts == {i \in 1..Len(r) :
                      /\ IsOpenTag(r[i], ignoreCase)
                      /\ \E j \in (i + 1)..Len(r) : IsCloseTag(r[j], ignoreCase)}
    IN  IF starts = {} THEN NoMatch
        ELSE LET i == Min(starts)
                 j == Min({k \in (i + 1)..Len(r) : IsCloseTag(r[k], ignoreCase)})
             IN  Matched(SubSeq(r, i + 1, j - 1))

\* the lookahead (?=\n\n|<\/|$) at position m
IsSectionEnd(r, m) ==
    \/ m = Len(r) + 1
    \/ r[m] = NLNL
    \/ r[m] = NL /\ m < Len(r) /\ r[m + 1] \in {NL, NLNL}
    \/ toLowerCase(r[m]) = CloseTag

\* response.match(/views:([\s\S]*?)(?=\n\n|<\/|$)/i): the leftmost "views:"
\* anywhere in the response, and the text up to the first blank line, "</"
\* or the end
viewsMatch(r) ==
    LET keys == {k \in 1..Len(r) : toLowerCase(r[k]) = ViewsKey}
    IN  IF keys = {} THEN NoMatch
        ELSE LET k == Min(keys)
                 m == Min({n \in (k + 1)..(Len(r) + 1) : IsSectionEnd(r, n)})
             IN  Matched(SubSeq(r, k + 1, m - 1))

\* the k-th smallest element of a set of numbers
Nth(S, k) == CHOOSE x \in S : Cardinality({y \in S : y < x}) = k - 1

\* what (?:\n\s*)? takes from the end of the piece before a "-": the trailing
\* whitespace from its first newline on
StripNewlineRun(cur) ==
    LET nonWs == {j \in 1..Len(cur) : ~IsWs(cur[j])}
        runStart == IF nonWs = {} THEN 1
                    ELSE (CHOOSE x \in nonWs : \A y \in nonWs : y <= x) + 1
        nls == {j \in runStart..Len(cur) : cur[j] \in {NL, NLNL}}
    IN  IF nls = {} THEN cur ELSE SubSeq(cur, 1, Min(nls) - 1)

\* the pieces between the separators /-\s*/: piece k runs from the end of
\* separator k-1 to the dash of separator k
dashPieces(s) ==
    LET dashes == {i \in 1..Len(s) : s[i] = "-"}
        n == Cardinality(dashes)
        from(k) == IF k = 1 THEN 1 ELSE SkipWs(s, Nth(dashes, k - 1) + 1)
        to(k) == IF k = n + 1 THEN Len(s) ELSE Nth(dashes, k) - 1
    IN  [k \in 1..(n + 1) |-> SubSeq(s, from(k), to(k))]

\* viewSection.split(/-\s*/)
splitDash(s) == dashPieces(s)

\* viewsSection.split(/(?:\n\s*)?-\s*/): as above, the separator also taking
\* the newline and whitespace before its dash
splitNewlineDash(s) ==
    LET pieces == dashPieces(s)
    IN  [k \in 1..Len(pieces) |->
            IF k < Len(pieces) THEN StripNewlineRun(pieces[k]) ELSE pieces[k]]

\* .filter(Boolean) on an array of strings: the empty strings go
RECURSIVE filterBoolean(_)
filterBoolean(pieces) ==
    IF pieces = <<>> THEN <<>>
    ELSE IF Head(pieces) = <<>> THEN filterBoolean(Tail(pieces))
    ELSE <<Head(pieces)>> \o filterBoolean(Tail(pieces))

\* the positions of /key\s*[seps]/i in an entry
KeyPositions(e, key, seps) ==
    {i \in 1..Len(e) :
        /\ toLowerCase(e[i]) = key
        /\ LET c == SkipWs(e, i + 1) IN c <= Len(e) /\ e[c] \in seps}

\* the position after /key\s*[seps]\s*/ matched at i
ValueStart(e, i) == SkipWs(e, SkipWs(e, i + 1) + 1)

\* the position of the first lexeme `close` after v, v+1 not being one
ClosedAt(e, v, close) ==
    {q \in (v + 2)..Len(e) : e[q] = close /\ \A k \in (v + 1)..(q - 1) : e[k] # close}

\* entry.match(/key\s*:\s*<open>([^<close>]+)<close>/i)
DelimitedMatch(e, key, open, close) ==
    LET hits == {i \in KeyPositions(e, key, {":"}) :
                    LET v == ValueStart(e, i)
                    IN  v <= Len(e) /\ e[v] = open /\ ClosedAt(e, v, close) # {}}
    IN  IF hits = {} THEN NoMatch
        ELSE LET v == ValueStart(e, Min(hits))
                 q == Min(ClosedAt(e, v, close))
             IN  Matched(SubSeq(e, v + 1, q - 1))

\* entry.match(/name\s*:\s*"([^"]+)"/i)
nameMatchQuoted(e) == DelimitedMatch(e, "name", DQ, DQ)

\* entry.match(/angle\s*:\s*\[([^\]]+)\]/i)
angleMatchBracketed(e) == DelimitedMatch(e, "angle", "[", "]")

\* entry.match(/distance\s*[seps]\s*(\d+)/i)
distanceMatch(e, seps) ==
    LET hits == {i \in KeyPositions(e, "distance", seps) :
                    LET v == ValueStart(e, i) IN v <= Len(e) /\ IsDigits(e[v])}
    IN  IF hits = {} THEN NoMatch
        ELSE Matched(<<e[ValueStart(e, Min(hits))]>>)

\* parseInt of a run of decimal digits
parseInt(g) == NumTable[g[1]]

\* Number(text): <<n>> for a number, <<>> for NaN.  Number trims, the empty
\* string is 0, and a sign before the digits is read.
Number(piece) ==
    LET t == trim(piece)
    IN  IF t = <<>> THEN <<0>>
        ELSE IF Len(t) = 1 /\ IsDigits(t[1]) THEN <<NumTable[t[1]]>>
        ELSE IF Len(t) = 2 /\ t[1] = "-" /\ IsDigits(t[2]) THEN <<0 - NumTable[t[2]]>>
        ELSE <<>>

\* what \s* before a comma takes from the end of a piece
StripTrailingWs(cur) ==
    LET nonWs == {j \in 1..Len(cur) : ~IsWs(cur[j])}
    IN  IF nonWs = {} THEN <<>>
        ELSE SubSeq(cur, 1, CHOOSE x \in nonWs : \A y \in nonWs : y <= x)

\* text.split(/\s*,\s*/)
RECURSIVE splitComma(_, _, _)
splitComma(s, i, cur) ==
    IF i > Len(s) THEN <<cur>>
    ELSE IF s[i] = ","
         THEN <<StripTrailingWs(cur)>> \o splitComma(s, SkipWs(s, i + 1), <<>>)
    ELSE splitComma(s, i + 1, Append(cur, s[i]))

\* text.split(/,\s*|\s+/)
RECURSIVE splitCommaOrSpace(_, _, _)
splitCommaOrSpace(s, i, cur) ==
    IF i > Len(s) THEN <<cur>>
    ELSE IF s[i] = "," \/ IsWs(s[i])
         THEN <<cur>> \o splitCommaOrSpace(s, SkipWs(s, i + 1), <<>>)
    ELSE splitCommaOrSpace(s, i + 1, Append(cur, s[i]))

\* pieces.map(Number).filter((n) => !isNaN(n))
RECURSIVE numbersOf(_)
numbersOf(pieces) ==
    IF pieces = <<>> THEN <<>>
    ELSE Number(Head(pieces)) \o numbersOf(Tail(pieces))

\* pieces.map(Number).some(isNaN)
someNaN(pieces) == \E i \in 1..Len(pieces) : Number(pieces[i]) = <<>>

(***************************************************************************)
(* parseResponse, one definition per revision.  A result is                *)
(* [ok, err, code, views]; a ViewSpec is [name, angle, distance], its name *)
(* a sequence of lexemes.                                                  *)
(***************************************************************************)
\* Throw that hands back an empty model in place of the error
Throw_emptyModel(e) == [ok |-> TRUE, err |-> "none", code |-> <<>>, views |-> <<>>]

Throw(e) == [ok |-> FALSE, err |-> e, code |-> <<>>, views |-> <<>>]

Return(code, views) == [ok |-> TRUE, err |-> "none", code |-> code, views |-> views]

ViewSpec(n, a, d) == [name |-> n, angle |-> a, distance |-> d]

\* part_000: the fallback of the return statement
defaultViews_part_000 ==
    << ViewSpec(<<"front">>, <<0, 0, 0>>, 150),
       ViewSpec(<<"top">>, <<90, 0, 0>>, 200),
       ViewSpec(<<"iso">>, <<45, 35, 15>>, 250) >>

\* part_001: defaultViews
defaultViews_part_001 ==
    << ViewSpec(<<"front">>, <<0, 0, 0>>, 150),
       ViewSpec(<<"back">>, <<180, 0, 0>>, 150),
       ViewSpec(<<"left">>, <<90, 0, 0>>, 150),
       ViewSpec(<<"right">>, <<0 - 90, 0, 0>>, 150),
       ViewSpec(<<"top">>, <<0, 90, 0>>, 200),
       ViewSpec(<<"bottom">>, <<0, 0 - 90, 0>>, 200),
       ViewSpec(<<"iso">>, <<45, 35, 15>>, 300) >>

\* index.ts (first revision): defaultViews
defaultViews_index_a ==
    << ViewSpec(<<"front">>, <<0, 0, 0>>, 100),
       ViewSpec(<<"iso">>, <<45, 35, 0>>, 100) >>

\* part_000, the body of the loop over viewEntries: <<view>>, or <<>> for an
\* entry that is skipped
viewOf_part_000(e) ==
    LET nameMatch == nameMatchQuoted(e)
        angleMatch == angleMatchBracketed(e)
        dist == distanceMatch(e, {":"})
    IN  IF ~nameMatch.found \/ ~angleMatch.found THEN <<>>
        ELSE LET angleParts == numbersOf(splitComma(angleMatch.group, 1, <<>>))
             IN  IF Len(angleParts) # 3 THEN <<>>
                 ELSE << ViewSpec(LowerAll(nameMatch.group), angleParts,
                                  IF dist.found THEN parseInt(dist.group) ELSE 150) >>

RECURSIVE views_part_000(_)
views_part_000(es) ==
    IF es = <<>> THEN <<>>
    ELSE viewOf_part_000(Head(es)) \o views_part_000(Tail(es))

parseResponse_part_000(r) ==
    LET code == codeMatch(r, TRUE)
        viewSection == viewsMatch(r).group
        viewEntries == IF viewSection = <<>> THEN <<>>
                       ELSE Tail(splitDash(viewSection))
        views == views_part_000(viewEntries)
    IN  IF ~code.found THEN Throw("MissingCodeBlock")
        ELSE Return(trim(code.group),
                    IF Len(views) >= 3 THEN views ELSE defaultViews_part_000)

\* part_001: entry.match(/name\s*[:=]\s*["']?([\w-]+)["']?/i)
nameMatchFlexible(e) ==
    LET start(i) == LET v == ValueStart(e, i)
                    IN  IF v <= Len(e) /\ e[v] \in {DQ, SQ} THEN v + 1 ELSE v
        wordy(t) == IsWord(t) \/ t = "-"
        hits == {i \in KeyPositions(e, "name", {":", "="}) :
                    start(i) <= Len(e) /\ wordy(e[start(i)])}
    IN  IF hits = {} THEN NoMatch
        ELSE LET w == start(Min(hits))
                 stop == Min({j \in w..(Len(e) + 1) : j = Len(e) + 1 \/ ~wordy(e[j])})
             IN  Matched(SubSeq(e, w, stop - 1))

\* the character class [-\d\s.,]
InAngleClass(t) == IsDigits(t) \/ IsWs(t) \/ t \in {",", ".", "-"}

\* part_001: entry.match(/angle\s*[:=]\s*\[?\s*([-\d\s.,]+)\s*\]?/i).  The
\* group is the longest run of class lexemes after the optional bracket; when
\* none starts there, backtracking hands the group one character of the
\* whitespace before it, if there is any.
angleMatchFlexible(e) ==
    LET try(i) ==
            LET a == SkipWs(e, i + 1) + 1
                b == SkipWs(e, a)
                bracket == b <= Len(e) /\ e[b] = "["
                d == IF bracket THEN SkipWs(e, b + 1) ELSE b
                stop == Min({j \in d..(Len(e) + 1) :
                                j = Len(e) + 1 \/ ~InAngleClass(e[j])})
                space == IF bracket THEN d > b + 1 \/ b > a ELSE b > a
            IN  IF d <= Len(e) /\ InAngleClass(e[d]) THEN Matched(SubSeq(e, d, stop - 1))
                ELSE IF space THEN Matched(<<SP>>)
                ELSE NoMatch
        hits == {i \in KeyPositions(e, "angle", {":", "="}) : try(i).found}
    IN  IF hits = {} THEN NoMatch ELSE try(Min(hits))

\* part_001, the body of the loop over viewEntries
viewOf_part_001(e) ==
    LET nameMatch == nameMatchFlexible(e)
        angleMatch == angleMatchFlexible(e)
        dist == distanceMatch(e, {":", "="})
    IN  IF ~nameMatch.found \/ ~angleMatch.found THEN <<>>
        ELSE LET angleParts == numbersOf(splitCommaOrSpace(angleMatch.group, 1, <<>>))
             IN  IF Len(angleParts) # 3 THEN <<>>
                 ELSE << ViewSpec(LowerAll(nameMatch.group), angleParts,
                                  IF dist.found THEN parseInt(dist.group) ELSE 150) >>

RECURSIVE views_part_001(_)
views_part_001(es) ==
    IF es = <<>> THEN <<>>
    ELSE viewOf_part_001(Head(es)) \o views_part_001(Tail(es))

parseResponse_part_001(r) ==
    LET code == codeMatch(r, TRUE)
        viewsSection == viewsMatch(r).group
        viewEntries == IF viewsSection = <<>> THEN <<>>
                       ELSE filterBoolean(splitNewlineDash(viewsSection))
        views == views_part_001(viewEntries)
    IN  IF ~code.found THEN Throw("MissingCodeBlock")
        ELSE Return(trim(code.group),
                    IF Len(views) > 3 THEN views ELSE defaultViews_part_001)

\* index.ts (first revision), the callback of viewEntries.map: <<view>>, or
\* <<>> where it throws
viewOf_index_a(e) ==
    LET nameMatch == nameMatchQuoted(e)
        angleMatch == angleMatchBracketed(e)
        dist == distanceMatch(e, {":"})
    IN  IF ~nameMatch.found \/ ~angleMatch.found THEN <<>>
        ELSE LET pieces == splitComma(angleMatch.group, 1, <<>>)
             IN  IF Len(pieces) # 3 \/ someNaN(pieces) THEN <<>>
                 ELSE << ViewSpec(nameMatch.group, numbersOf(pieces),
                                  IF dist.found THEN parseInt(dist.group) ELSE 100) >>

RECURSIVE views_index_a(_)
views_index_a(es) ==
    IF es = <<>> THEN <<>>
    ELSE viewOf_index_a(Head(es)) \o views_index_a(Tail(es))

parseResponse_index_a(r) ==
    LET code == codeMatch(r, FALSE)
        viewsSectionMatch == viewsMatch(r)
        viewEntries == filterBoolean(splitNewlineDash(viewsSectionMatch.group))
        thrown == \E i \in 1..Len(viewEntries) : viewOf_index_a(viewEntries[i]) = <<>>
    IN  IF ~code.found THEN Throw("MissingCodeBlock")
        ELSE Return(trim(code.group),
                    IF viewsSectionMatch.found /\ ~thrown
                    THEN views_index_a(viewEntries)
                    ELSE defaultViews_index_a)

\* index.ts (second revision):
\* response.match(/views:\s*((?:[\s\S]*?\n  - [\s\S]*?)+)(?:\n\n|$)/) finds a
\* match exactly when a "views:" is followed somewhere by "\n  - "
yamlMatch(r) ==
    \E k \in 1..Len(r) :
        /\ r[k] = ViewsKey
        /\ \E j \in (k + 1)..(Len(r) - 3) :
              /\ r[j] \in {NL, NLNL}
              /\ r[j + 1] = IND
              /\ r[j + 2] = "-"
              /\ r[j + 3] = SP

\* index.ts (second revision): the checks on what the yaml library returned.
\* y is [throws, isArray, views]; a view object of y is
\* [name, angle, distance, numeric], name <<>> standing for a missing name.
yamlInvalid(y) ==
    \/ y.throws
    \/ ~y.isArray
    \/ \E i \in 1..Len(y.views) :
          \/ y.views[i].name = <<>>
          \/ Len(y.views[i].angle) # 3
          \/ ~y.views[i].numeric

parseResponse_index_b(r, y) ==
    LET code == codeMatch(r, FALSE)
    IN  IF ~code.found THEN Throw("MissingCodeBlock")
        ELSE IF ~yamlMatch(r) THEN Throw("MissingViewsSection")
        ELSE IF yamlInvalid(y) THEN Throw("FailedToParse")
        ELSE Return(trim(code.group),
                    [i \in 1..Len(y.views) |->
                        ViewSpec(y.views[i].name, y.views[i].angle, y.views[i].distance)])

\* CADSession.parseResponse of the running revision
parseResponse(rv, r, y) ==
    CASE rv = "part_000" -> parseResponse_part_000(r)
      [] rv = "part_001" -> parseResponse_part_001(r)
      [] rv = "index_a" -> parseResponse_index_a(r)
      [] rv = "index_b" -> parseResponse_index_b(r, y)

(***************************************************************************)
(* Parser harness: the responses parseResponse is applied to.  A response  *)
(* is a code block form followed by a views section written from a list of *)
(* entry descriptors [name, angles, dist] in one of three layouts; dist "" *)
(* is an entry that declares no distance.                                  *)
(***************************************************************************)
MaxEntries == 4

Entry(n, a, d) == [name |-> n, angles |-> a, dist |-> d]

EntryForms ==
    { Entry("Side", <<"90", "0", "0">>, ""),
      Entry("detail", <<"45", "35", "15">>, "50"),
      Entry("top", <<"0", "0">>, "200") }

Layouts == {"inline", "block", "yaml"}

Styles == {"unquoted", "equals", "spaced"}

BlockForms == {"canonical", "sphere", "upper", "none", "unclosed", "empty", "blank"}

\* the text of an item; an empty item is written as nothing at all, a negative
\* number as its sign and its digits, a hyphenated name as its words and the
\* hyphen between them
Lex(x) ==
    CASE x = "" -> <<>>
      [] x = "-90" -> <<"-", "90">>
      [] x = "top-left" -> <<"top", "-", "left">>
      [] OTHER -> <<x>>

RECURSIVE joinComma(_, _)
joinComma(a, sep) ==
    IF a = <<>> THEN <<>>
    ELSE IF Len(a) = 1 THEN Lex(a[1])
    ELSE Lex(a[1]) \o <<",">> \o sep \o joinComma(Tail(a), sep)

RECURSIVE joinSpace(_)
joinSpace(a) ==
    IF a = <<>> THEN <<>>
    ELSE IF Len(a) = 1 THEN Lex(a[1])
    ELSE Lex(a[1]) \o <<SP>> \o joinSpace(Tail(a))

\* one entry, as the system prompt of each revision writes it (inline, block,
\* yaml), or written on one line in another surface syntax: the name without
\* quotes, "=" after the keys, or the angles separated by spaces
EntryText(d, lay) ==
    LET nameField == <<"name", ":", SP, DQ>> \o Lex(d.name) \o <<DQ>>
        angleField(sep) == <<"angle", ":", SP, "[">> \o joinComma(d.angles, sep) \o <<"]">>
        distField == <<"distance", ":", SP, d.dist>>
    IN  CASE lay = "inline" ->
               <<NL, "-", SP>> \o nameField \o <<SP>> \o angleField(<<>>)
               \o (IF d.dist = "" THEN <<>> ELSE <<SP>> \o distField)
          [] lay = "block" ->
               <<NL, "-", SP>> \o nameField \o <<NL, IND>> \o angleField(<<SP>>)
               \o (IF d.dist = "" THEN <<>> ELSE <<NL, IND>> \o distField)
          [] lay = "yaml" ->
               <<NL, IND, "-", SP>> \o nameField \o <<NL, IND, IND>> \o angleField(<<SP>>)
               \o (IF d.dist = "" THEN <<>> ELSE <<NL, IND, IND>> \o distField)
          [] lay = "unquoted" ->
               <<NL, "-", SP, "name", ":", SP, d.name, SP>> \o angleField(<<>>)
               \o (IF d.dist = "" THEN <<>> ELSE <<SP>> \o distField)
          [] lay = "equals" ->
               <<NL, "-", SP, "name", "=", SP, DQ, d.name, DQ, SP, "angle", "=", SP, "[">>
               \o joinComma(d.angles, <<>>) \o <<"]">>
               \o (IF d.dist = "" THEN <<>> ELSE <<SP, "distance", "=", SP, d.dist>>)
          [] lay = "spaced" ->
               <<NL, "-", SP>> \o nameField \o <<SP, "angle", ":", SP, "[">>
               \o joinSpace(d.angles) \o <<"]">>
               \o (IF d.dist = "" THEN <<>> ELSE <<SP>> \o distField)

RECURSIVE EntriesText(_, _)
EntriesText(ds, lay) ==
    IF ds = <<>> THEN <<>>
    ELSE EntryText(Head(ds), lay) \o EntriesText(Tail(ds), lay)

BlockText(form) ==
    CASE form = "canonical" -> <<OpenTag, NL, "cube", NL, CloseTag, NLNL>>
      [] form = "sphere" -> <<OpenTag, NL, "sphere", NL, CloseTag, NLNL>>
      [] form = "upper" -> <<"<OPENSCAD>", NL, "cube", NL, "</OPENSCAD>", NLNL>>
      [] form = "none" -> <<"cube", NLNL>>
      [] form = "unclosed" -> <<OpenTag, NL, "cube", NLNL>>
      [] form = "empty" -> <<OpenTag, CloseTag, NLNL>>
      [] form = "blank" -> <<OpenTag, NL, IND, NL, CloseTag, NLNL>>
      [] form = "commented" ->
           <<OpenTag, NL, "//", SP, ViewsKey, SP, "below", NL, "cube", NL, CloseTag, NLNL>>
      [] form = "preface" ->
           <<"the", SP, ViewsKey, SP, "below", NLNL, OpenTag, NL, "cube", NL, CloseTag, NLNL>>

\* a views section is written only when there are entries
ResponseText(form, ds, lay) ==
    BlockText(form)
    \o (IF ds = <<>> THEN <<>> ELSE <<ViewsKey>> \o EntriesText(ds, lay))

EntryLists == UNION {[1..n -> EntryForms] : n \in 0..MaxEntries}

\* what the yaml library may hand back to index_b
YamlObject(n, a, d, num) == [name |-> n, angle |-> a, distance |-> d, numeric |-> num]

YamlFrontIso ==
    [throws |-> FALSE, isArray |-> TRUE,
     views |-> << YamlObject(<<"front">>, <<0, 0, 0>>, 100, TRUE),
                  YamlObject(<<"iso">>, <<45, 35, 0>>, 100, TRUE) >>]

YamlResults ==
    { [throws |-> TRUE, isArray |-> FALSE, views |-> <<>>],
      [throws |-> FALSE, isArray |-> FALSE, views |-> <<>>],
      [throws |-> FALSE, isArray |-> TRUE, views |-> <<>>],
      YamlFrontIso,
      [throws |-> FALSE, isArray |-> TRUE,
       views |-> << YamlObject(<<"front">>, <<0, 0, 0>>, 0, FALSE) >>] }

NoYaml == [throws |-> TRUE, isArray |-> FALSE, views |-> <<>>]

NotParsed == [done |-> FALSE, result |-> Throw("none")]

(***************************************************************************)
(* Session state and persistence                                           *)
(***************************************************************************)
Procs == {1, 2}

Prompts == {"a 20mm cube", "a phone stand"}

Feedbacks == {"make the walls thicker", "add a lid"}

\* feedback?: string left undefined
NoFeedback == "<undefined>"

MaxClock == 2

MaxSessions == 2

\* a ProjectState
ProjectState(id, prompt, its) == [id |-> id, originalPrompt |-> prompt, iterations |-> its]

NoData == ProjectState(0, "", <<>>)

\* CADSession.state: ProjectState | null
NullState == [kind |-> "null", data |-> NoData]

Session(d) == [kind |-> "session", data |-> d]

\* the state file: absent, unreadable, not JSON, or the JSON text of a ProjectState
File(kind) == [kind |-> kind, data |-> NoData]

\* JSON.stringify(state, null, 2)
stringify(d) == [kind |-> "json", data |-> d]

\* an iteration
IterationState(ts, code, rs, fb) ==
    [timestamp |-> ts, code |-> code, renders |-> rs, feedback |-> fb]

\* loadState that takes a file it cannot parse for a session without iterations
loadState_lenient(file) ==
    IF file.kind \in {"json", "corrupt"} THEN [ok |-> TRUE, state |-> Session(file.data)]
    ELSE [ok |-> FALSE, state |-> NullState]

\* CADSession.loadState: readFile and JSON.parse in one try block
loadState(file) ==
    IF file.kind = "json" THEN [ok |-> TRUE, state |-> Session(file.data)]
    ELSE [ok |-> FALSE, state |-> NullState]

\* generateModel that takes over the session of the state file and only
\* replaces its prompt
newState_merges(id, prompt) ==
    IF slot.kind = "json"
    THEN Session([slot.data EXCEPT !.originalPrompt = prompt])
    ELSE Session(ProjectState(id, prompt, <<>>))

\* CADSession.generateModel, the assignment to this.state
newState(id, prompt) == Session(ProjectState(id, prompt, <<>>))

\* addIteration that leaves the history as it is, so that saveState writes
\* the session without the new iteration
addIteration_skips(st, m, feedback, now) == st

\* addIteration that replaces the history by the new iteration
addIteration_overwrites(st, m, feedback, now) ==
    [st EXCEPT !.data.iterations = << IterationState(now, m.code, <<>>, feedback) >>]

\* CADSession.addIteration, the push
addIteration(st, m, feedback, now) ==
    [st EXCEPT !.data.iterations = Append(@, IterationState(now, m.code, <<>>, feedback))]

\* saveState that writes the session with its latest iteration only
saveState_latestOnly(st) ==
    stringify([st.data EXCEPT !.iterations =
                   IF @ = <<>> THEN @ ELSE << @[Len(@)] >>])

\* CADSession.saveState, the file it writes
saveState(st) == stringify(st.data)

Last(s) == s[Len(s)]

\* iterateModel that reports an empty history as a missing session
iterateGuard_conflated(rv, st) ==
    IF st.kind = "null" \/ Len(st.data.iterations) = 0 THEN "NoSessionFound"
    ELSE IF rv # "part_000" /\ st.data.iterations[Len(st.data.iterations)].renders = <<>>
         THEN "NoRendersYet"
    ELSE "none"

\* CADSession.iterateModel, the checks between loadState and createModel:
\* the error thrown, or "none"
iterateGuard(rv, st) ==
    IF st.kind = "null" \/ Len(st.data.iterations) = 0 THEN "EmptyHistory"
    ELSE IF rv # "part_000" /\ Len(Last(st.data.iterations).renders) = 0
         THEN "NoRendersYet"
    ELSE "none"

(***************************************************************************)
(* Requests to the model                                                   *)
(***************************************************************************)
NoImage == [code |-> <<>>, camera |-> <<>>]

TextPart(t) == [type |-> "text", text |-> t, data |-> NoImage]

ImagePart(img) == [type |-> "image", text |-> <<>>, data |-> img]

\* CADSession.formatInitialPrompt (part_000 sends the prompt itself)
formatInitialPrompt(rv, prompt) ==
    IF rv = "part_000" THEN << TextPart(<<prompt>>) >>
    ELSE << TextPart(<<"Design a 3D model based on this description:", prompt,
                       "IMPORTANT: Your response must follow this exact format:">>) >>

\* renderParts that puts each render before the ones already added (unshift
\* in place of push)
RECURSIVE renderParts_newestFirst(_, _)
renderParts_newestFirst(rv, rs) ==
    IF rs = <<>> THEN <<>>
    ELSE renderParts_newestFirst(rv, Tail(rs))
         \o << ImagePart(Head(rs).image),
               TextPart(IF rv = "part_000" THEN Head(rs).view \o <<"view">>
                        ELSE <<"^">> \o Head(rs).view \o <<"view">>) >>

RECURSIVE renderParts(_, _)
renderParts(rv, rs) ==
    IF rs = <<>> THEN <<>>
    ELSE << ImagePart(Head(rs).image),
            TextPart(IF rv = "part_000" THEN Head(rs).view \o <<"view">>
                     ELSE <<"^">> \o Head(rs).view \o <<"view">>) >>
         \o renderParts(rv, Tail(rs))

\* CADSession.formatIterationMessage
formatIterationMessage(rv, st, feedback, rs) ==
    LET latestCode == Last(st.data.iterations).code
        head ==
            IF rv = "part_000"
            THEN <<"Original Request:", st.data.originalPrompt, "Feedback:", feedback,
                   "Current Code:">> \o latestCode \o <<"Please analyze these renders:">>
            ELSE <<"Original request:", st.data.originalPrompt, "Previous OpenSCAD code:">>
                 \o latestCode \o <<"User feedback:", feedback,
                                    "Please analyze the following renders">>
    IN  << TextPart(head) >> \o renderParts(rv, rs)
        \o << TextPart(<<"Provide improved OpenSCAD code">>) >>

(***************************************************************************)
(* OpenSCADRenderer                                                        *)
(***************************************************************************)
Max2(a, b) == IF a >= b THEN a ELSE b

\* the --camera argument of each revision, as its list of numbers; part_001
\* computes eye and center from the three angles and the distance, which
\* stand here for the result
\* camera parameters without the switch on the name of the view: the default
\* branch of part_000 for every view
cameraParams_generic(rv, view) ==
    CASE rv = "part_000" -> <<0, 0, 0>> \o view.angle \o <<Max2(view.distance, 100)>>
      [] rv = "part_001" -> view.angle \o <<view.distance>>
      [] rv = "index_a" -> <<0, 0, view.distance, 0, 0, 0>>
      [] rv = "index_b" -> view.angle \o <<view.distance>>

cameraParams(rv, view) ==
    CASE rv = "part_000" ->
           IF view.name = <<"front">> THEN <<0, 0, 0, 0, 5, 0, 100>>
           ELSE IF view.name = <<"top">> THEN <<0, 0, 0, 90, 0, 10, 100>>
           ELSE IF view.name = <<"iso">> THEN <<20, 0, 0, 35, 0, 25, 120>>
           ELSE <<0, 0, 0>> \o view.angle \o <<Max2(view.distance, 100)>>
      [] rv = "part_001" -> view.angle \o <<view.distance>>
      [] rv = "index_a" -> <<0, 0, view.distance, 0, 0, 0>>
      [] rv = "index_b" -> view.angle \o <<view.distance>>

\* part_000: const baseDistance = 100
baseDistance == 100

\* the distance the --camera argument carries: the last number of part_000
\* and of the second revision of index.ts, the distance of the eye from the
\* origin in part_001, the height of the eye in the first revision of index.ts
cameraDistance(rv, camera) ==
    CASE rv = "part_000" -> camera[7]
      [] rv = "part_001" -> camera[4]
      [] rv = "index_a" -> camera[3]
      [] rv = "index_b" -> camera[4]

\* index.ts (first revision): the checks at the top of the try block
viewRejected(rv, view) ==
    rv = "index_a" /\ (Len(view.angle) # 3 \/ view.distance <= 0)

\* the image openscad writes for a model file and a camera, base64-encoded
renderImage(code, camera) == [code |-> code, camera |-> camera]

\* a RenderResult that carries the name of the image file in place of the
\* name of the view
RenderResult_fileName(viewName, img) == [view |-> viewName \o <<".png">>, image |-> img]

RenderResult(viewName, img) == [view |-> viewName, image |-> img]

\* what the loop body of render may throw for a view, as the text of
\* error.message: the checks of index.ts (first revision) on the view, or
\* else a failure of the disk that names no file, or one of openscad, whose
\* message quotes the command line and so the output file
Causes(rv, view) ==
    IF viewRejected(rv, view)
    THEN { (IF Len(view.angle) # 3 THEN <<"Invalid angle array for view">>
            ELSE <<"Invalid distance value for view">>) \o view.name }
    ELSE { <<"ENOSPC: no space left on device, write">>,
           <<"Command failed: openscad -o">> \o view.name \o <<".png">> }

\* the message of the Error the catch block of the render loop throws
renderError(rv, view, cause) ==
    CASE rv = "part_000" -> <<"Render failed:">> \o cause
      [] rv = "part_001" -> <<"Failed to render">> \o view.name \o <<":">> \o cause
      [] OTHER -> <<"Failed to render view">> \o view.name \o <<":">> \o cause

\* the catch block of the render loop removes the workspace
catchCleansUp(rv) == rv \in {"part_000", "part_001"}

\* OpenSCADRenderer.cleanup: what becomes of (tempDir is set, the directory
\* exists)
cleanup(rv, t, w) ==
    IF t /\ w THEN [tempDir |-> FALSE, workspace |-> FALSE]
    ELSE [tempDir |-> IF rv \in {"part_000", "part_001"} THEN FALSE ELSE t,
          workspace |-> w]

\* an attach step that sets the renders on the first iteration of the session
attachRenders_firstIteration(ps, rs) == [ps EXCEPT !.iterations[1].renders = rs]

\* an attach step that rebuilds the last iteration and leaves its feedback out
attachRenders_dropsFeedback(ps, rs) ==
    [ps EXCEPT !.iterations[Len(ps.iterations)] =
                   IterationState(@.timestamp, @.code, rs, NoFeedback)]

\* an attach step that sets the renders on every iteration of the session
attachRenders_everyIteration(ps, rs) ==
    [ps EXCEPT !.iterations = [i \in DOMAIN @ |-> [@[i] EXCEPT !.renders = rs]]]

\* an attach step that loses the first render (an off-by-one slice)
attachRenders_dropsFirst(ps, rs) ==
    [ps EXCEPT !.iterations[Len(ps.iterations)].renders =
                   IF rs = <<>> THEN rs ELSE Tail(rs)]

\* the create and iterate actions of main, after render: the renders are set
\* on the last iteration of the state read back from the file
attachRenders(ps, rs) ==
    [ps EXCEPT !.iterations[Len(ps.iterations)].renders = rs]

(***************************************************************************)
(* The program: CLI processes running create and iterate commands          *)
(***************************************************************************)
NoModel == [code |-> <<>>, views |-> <<>>]

\* the state files the program may find when it is first run: none, one it
\* cannot read, one that is not JSON, or a session without iterations (and,
\* in InitMachine, the file of RenderedFiles)
InitialFiles ==
    {File("absent"), File("unreadable"), File("corrupt")}
    \cup {stringify(ProjectState(0, pr, <<>>)) : pr \in Prompts}

\* a response with a sphere and four views
SphereResponse ==
    ResponseText("sphere",
                 << Entry("front", <<"0", "0", "0">>, "150"),
                    Entry("Side", <<"90", "0", "0">>, ""),
                    Entry("detail", <<"45", "35", "15">>, "50"),
                    Entry("back", <<"180", "0", "0">>, "50") >>, "yaml")

\* a response with a cube and one view
CubeResponse ==
    ResponseText("canonical", << Entry("front", <<"0", "0", "0">>, "150") >>, "yaml")

\* a response with a cube that ends with the word "views:", no entry after it
BareViewsResponse == BlockText("canonical") \o <<ViewsKey>>

\* the responses the model gives to the commands
ModelResponses ==
    { ResponseText("none", <<>>, "inline"),
      ResponseText("canonical", <<>>, "inline"),
      BareViewsResponse,
      SphereResponse }

\* OpenSCADRenderer.render, what it returns when every view renders
renderAll(rv, m) ==
    [i \in 1..Len(m.views) |->
        RenderResult(m.views[i].name,
                     renderImage(m.code, cameraParams(rv, m.views[i])))]

\* the state file an earlier create of the running revision has left, its
\* renders attached: the model had answered with SphereResponse
RenderedFiles(rv) ==
    LET m == parseResponse(rv, SphereResponse, YamlFrontIso)
    IN  { stringify(ProjectState(0, "a phone stand",
              << IterationState(0, m.code, renderAll(rv, m), NoFeedback) >>)) }

YamlFor(rv) == IF rv = "index_b" THEN YamlResults ELSE {NoYaml}

\* parseResponse on the responses the model gives to the commands, tabulated
parseResponseOf ==
    [rv \in Revisions |->
        [resp \in ModelResponses \cup {CubeResponse} |->
            [y \in YamlFor(rv) |-> parseResponse(rv, resp, y)]]]

InitMachine ==
    /\ slot \in InitialFiles \cup RenderedFiles(rev)
    /\ pc = [p \in Procs |-> "idle"]
    /\ cmd = [p \in Procs |-> "none"]
    /\ arg = [p \in Procs |-> ""]
    /\ state = [p \in Procs |-> NullState]
    /\ request = [p \in Procs |-> <<>>]
    /\ fullResponse = [p \in Procs |-> <<>>]
    /\ model = [p \in Procs |-> NoModel]
    /\ err = [p \in Procs |-> "none"]
    /\ message = [p \in Procs |-> <<>>]
    /\ tempDir = [p \in Procs |-> FALSE]
    /\ workspace = [p \in Procs |-> FALSE]
    /\ viewIdx = [p \in Procs |-> 0]
    /\ renders = [p \in Procs |-> <<>>]
    /\ projectState = [p \in Procs |-> NoData]
    /\ nextId = 0
    /\ clock = 0
    /\ overlap = FALSE

InitHarness ==
    /\ response = <<>>
    /\ entries = <<>>
    /\ block = "none"
    /\ layout = "inline"
    /\ yaml = NoYaml
    /\ parsed = NotParsed

Init == rev \in Revisions /\ InitMachine /\ InitHarness

Awaiting == {q \in Procs : pc[q] \in {"generate", "iterate"}}

\* a command may start: the process is idle, the caller serializes the
\* commands when serial, and the clock has timestamps left
CanStart(p, serial) ==
    /\ pc[p] = "idle"
    /\ serial => \A q \in Procs : pc[q] = "idle"
    /\ clock + Cardinality(Awaiting) < MaxClock

\* a command of another process is running: started and not yet ended
Running(p) == \E q \in Procs \ {p} : pc[q] \notin {"idle", "done"}

\* a catch block that records the error and lets the command go on from
\* where it was, so that the failed call is made again
catchError_retries(p, e) ==
    /\ err' = [err EXCEPT ![p] = e]
    /\ pc' = [pc EXCEPT ![p] = IF @ \in {"generate", "iterate", "render_loop"}
                               THEN @ ELSE "done"]
    /\ UNCHANGED slot

\* a catch block that also removes the state file
catchError_removesState(p, e) ==
    /\ err' = [err EXCEPT ![p] = e]
    /\ pc' = [pc EXCEPT ![p] = "done"]
    /\ slot' = File("absent")

\* the catch block of the create and iterate actions of main: the message is
\* printed and the process exits with status 1; nothing is written
catchError(p, e) ==
    /\ err' = [err EXCEPT ![p] = e]
    /\ pc' = [pc EXCEPT ![p] = "done"]
    /\ UNCHANGED slot

\* create <prompt>: generateModel up to the request to the model
Create(p, prompt, serial) ==
    /\ CanStart(p, serial)
    /\ nextId < MaxSessions
    /\ nextId' = nextId + 1
    /\ cmd' = [cmd EXCEPT ![p] = "create"]
    /\ arg' = [arg EXCEPT ![p] = prompt]
    /\ state' = [state EXCEPT ![p] = newState(nextId + 1, prompt)]
    /\ request' = [request EXCEPT ![p] = formatInitialPrompt(rev, prompt)]
    /\ pc' = [pc EXCEPT ![p] = "generate"]
    /\ overlap' = (overlap \/ Running(p))
    /\ UNCHANGED <<rev, message, slot, fullResponse, model, err, tempDir, workspace, viewIdx,
                   renders, projectState, clock>>
    /\ UNCHANGED harnessVars

\* iterate <feedback>: iterateModel up to the request to the model
Iterate(p, feedback, serial) ==
    /\ CanStart(p, serial)
    /\ LET loaded == loadState(slot)
           guard == iterateGuard(rev, loaded.state)
       IN  /\ cmd' = [cmd EXCEPT ![p] = "iterate"]
           /\ arg' = [arg EXCEPT ![p] = feedback]
           /\ IF ~loaded.ok
              THEN /\ catchError(p, "NoSessionFound")
                   /\ UNCHANGED <<state, request>>
              ELSE /\ state' = [state EXCEPT ![p] = loaded.state]
                   /\ IF guard # "none"
                      THEN /\ catchError(p, guard)
                           /\ UNCHANGED request
                      ELSE /\ request' =
                                [request EXCEPT ![p] =
                                    formatIterationMessage(rev, loaded.state, feedback,
                                        Last(loaded.state.data.iterations).renders)]
                           /\ pc' = [pc EXCEPT ![p] = "iterate"]
                           /\ UNCHANGED <<err, slot>>
    /\ overlap' = (overlap \/ Running(p))
    /\ UNCHANGED <<rev, message, fullResponse, model, tempDir, workspace, viewIdx, renders,
                   projectState, nextId, clock>>
    /\ UNCHANGED harnessVars

\* a feedback argument that is always passed on, the prompt of create included
feedbackOf_always(c, a) == a

\* the feedback argument of addIteration: generateModel passes none,
\* iterateModel passes its feedback
feedbackOf(c, a) == IF c = "create" THEN NoFeedback ELSE a

\* createModel returns m, the outcome of parseResponse: the error is thrown,
\* or addIteration pushes the iteration and saveState writes the file
ModelReturns(p, m) ==
    /\ pc[p] \in {"generate", "iterate"}
    /\ IF ~m.ok
       THEN /\ catchError(p, m.err)
            /\ UNCHANGED <<state, model, clock>>
       ELSE /\ model' = [model EXCEPT ![p] = [code |-> m.code, views |-> m.views]]
            /\ state' = [state EXCEPT ![p] =
                   addIteration(@, m, feedbackOf(cmd[p], arg[p]), clock + 1)]
            /\ slot' = saveState(state'[p])
            /\ clock' = clock + 1
            /\ pc' = [pc EXCEPT ![p] = "render"]
            /\ UNCHANGED err
    /\ UNCHANGED <<rev, overlap, message, cmd, arg, request, tempDir, workspace, viewIdx, renders,
                   projectState, nextId>>
    /\ UNCHANGED harnessVars

\* the model answers resp (and the yaml library, in index_b, returns y)
ModelReply(p, resp, y) ==
    /\ fullResponse' = [fullResponse EXCEPT ![p] = resp]
    /\ ModelReturns(p, parseResponseOf[rev][resp][y])

\* the request to the model fails
ModelFails(p) ==
    /\ pc[p] \in {"generate", "iterate"}
    /\ catchError(p, "ApiError")
    /\ UNCHANGED <<rev, overlap, message, cmd, arg, state, request, fullResponse, model, tempDir,
                   workspace, viewIdx, renders, projectState, nextId, clock>>
    /\ UNCHANGED harnessVars

\* render, before the loop: cleanup, the scratch directory, the model file
\* (and, in part_000 and part_001, the renders directory); ok is whether the
\* writes after the first mkdir succeed
RenderStart(p, ok) ==
    /\ pc[p] = "render"
    /\ tempDir' = [tempDir EXCEPT ![p] = TRUE]
    /\ workspace' = [workspace EXCEPT ![p] = TRUE]
    /\ IF ok
       THEN /\ viewIdx' = [viewIdx EXCEPT ![p] = 1]
            /\ renders' = [renders EXCEPT ![p] = <<>>]
            /\ pc' = [pc EXCEPT ![p] = "render_loop"]
            /\ UNCHANGED <<err, slot>>
       ELSE /\ catchError(p, "IOError")
            /\ UNCHANGED <<viewIdx, renders>>
    /\ UNCHANGED <<rev, overlap, message, cmd, arg, state, request, fullResponse, model,
                   projectState, nextId, clock>>
    /\ UNCHANGED harnessVars

\* a loop that takes the views from the last to the first
viewAt_reversed(m, i) == m.views[Len(m.views) + 1 - i]

\* for (const view of model.views): the view of the i-th turn
viewAt(m, i) == m.views[i]

\* one turn of the loop over model.views: openscad is run for the view and
\* awaited, its image is read, saved and pushed; ok is whether openscad and
\* the file operations of the turn succeed.  The turn touches nothing but the
\* variables and the directories of its own call.
RenderView(p, ok) ==
    /\ pc[p] = "render_loop"
    /\ viewIdx[p] <= Len(model[p].views)
    /\ LET view == viewAt(model[p], viewIdx[p])
           after == cleanup(rev, tempDir[p], workspace[p])
       IN  IF ok /\ ~viewRejected(rev, view)
           THEN /\ renders' = [renders EXCEPT ![p] =
                       Append(@, RenderResult(view.name,
                                   renderImage(model[p].code, cameraParams(rev, view))))]
                /\ viewIdx' = [viewIdx EXCEPT ![p] = @ + 1]
                /\ UNCHANGED <<pc, err, message, slot, tempDir, workspace>>
           ELSE /\ catchError(p, "RenderFailed")
                /\ \E cause \in Causes(rev, view) :
                       message' = [message EXCEPT ![p] = renderError(rev, view, cause)]
                /\ tempDir' = [tempDir EXCEPT ![p] =
                       IF catchCleansUp(rev) THEN after.tempDir ELSE @]
                /\ workspace' = [workspace EXCEPT ![p] =
                       IF catchCleansUp(rev) THEN after.workspace ELSE @]
                /\ UNCHANGED <<renders, viewIdx>>
    /\ UNCHANGED <<rev, overlap, cmd, arg, state, request, fullResponse, model,
                   projectState, nextId, clock>>
    /\ UNCHANGED harnessVars

\* render, after the loop: cleanup and return
RenderFinish(p) ==
    /\ pc[p] = "render_loop"
    /\ viewIdx[p] > Len(model[p].views)
    /\ LET after == cleanup(rev, tempDir[p], workspace[p])
       IN  /\ tempDir' = [tempDir EXCEPT ![p] = after.tempDir]
           /\ workspace' = [workspace EXCEPT ![p] = after.workspace]
    /\ pc' = [pc EXCEPT ![p] = "attach_read"]
    /\ UNCHANGED <<rev, overlap, message, slot, cmd, arg, state, request, fullResponse, model, err,
                   viewIdx, renders, projectState, nextId, clock>>
    /\ UNCHANGED harnessVars

\* the command reads the state file back
AttachRead(p) ==
    /\ pc[p] = "attach_read"
    /\ IF slot.kind = "json"
       THEN /\ projectState' = [projectState EXCEPT ![p] = slot.data]
            /\ pc' = [pc EXCEPT ![p] = "attach_write"]
            /\ UNCHANGED <<err, slot>>
       ELSE /\ catchError(p, "AttachFailed")
            /\ UNCHANGED projectState
    /\ UNCHANGED <<rev, overlap, message, cmd, arg, state, request, fullResponse, model, tempDir,
                   workspace, viewIdx, renders, nextId, clock>>
    /\ UNCHANGED harnessVars

\* the command sets the renders of the last iteration and writes the file
AttachWrite(p) ==
    /\ pc[p] = "attach_write"
    /\ IF Len(projectState[p].iterations) > 0
       THEN /\ slot' = stringify(attachRenders(projectState[p], renders[p]))
            /\ pc' = [pc EXCEPT ![p] = "done"]
            /\ UNCHANGED err
       ELSE catchError(p, "AttachFailed")
    /\ UNCHANGED <<rev, overlap, message, cmd, arg, state, request, fullResponse, model, tempDir,
                   workspace, viewIdx, renders, projectState, nextId, clock>>
    /\ UNCHANGED harnessVars

\* the process ends; the next command runs in a new process
Exit(p) ==
    /\ pc[p] = "done"
    /\ pc' = [pc EXCEPT ![p] = "idle"]
    /\ cmd' = [cmd EXCEPT ![p] = "none"]
    /\ arg' = [arg EXCEPT ![p] = ""]
    /\ state' = [state EXCEPT ![p] = NullState]
    /\ request' = [request EXCEPT ![p] = <<>>]
    /\ fullResponse' = [fullResponse EXCEPT ![p] = <<>>]
    /\ model' = [model EXCEPT ![p] = NoModel]
    /\ err' = [err EXCEPT ![p] = "none"]
    /\ message' = [message EXCEPT ![p] = <<>>]
    /\ tempDir' = [tempDir EXCEPT ![p] = FALSE]
    /\ workspace' = [workspace EXCEPT ![p] = FALSE]
    /\ viewIdx' = [viewIdx EXCEPT ![p] = 0]
    /\ renders' = [renders EXCEPT ![p] = <<>>]
    /\ projectState' = [projectState EXCEPT ![p] = NoData]
    /\ UNCHANGED <<rev, overlap, slot, nextId, clock>>
    /\ UNCHANGED harnessVars

Step(p, serial) ==
    \/ \E prompt \in Prompts : Create(p, prompt, serial)
    \/ \E feedback \in Feedbacks : Iterate(p, feedback, serial)
    \/ \E resp \in ModelResponses : \E y \in YamlFor(rev) : ModelReply(p, resp, y)
    \/ ModelFails(p)
    \/ \E ok \in BOOLEAN : RenderStart(p, ok)
    \/ \E ok \in BOOLEAN : RenderView(p, ok)
    \/ RenderFinish(p)
    \/ AttachRead(p)
    \/ AttachWrite(p)
    \/ Exit(p)

\* the commands are serialized by the caller
Next == \E p \in Procs : Step(p, TRUE)

Spec == Init /\ [][Next]_vars

\* Commands that may run concurrently against the same state file: the file
\* is the one an earlier create has left, the model answers with one of two
\* designs, and the model, the disk and openscad do not fail.
InitConcurrent ==
    /\ rev \in Revisions
    /\ InitMachine
    /\ slot.kind = "json"
    /\ slot.data.iterations # <<>>
    /\ InitHarness

StepConcurrent(p) ==
    \/ Create(p, "a 20mm cube", FALSE)
    \/ Iterate(p, "add a lid", FALSE)
    \/ \E resp \in {CubeResponse, SphereResponse} :
          ModelReply(p, resp, IF rev = "index_b" THEN YamlFrontIso ELSE NoYaml)
    \/ RenderStart(p, TRUE)
    \/ RenderView(p, TRUE)
    \/ RenderFinish(p)
    \/ AttachRead(p)
    \/ AttachWrite(p)
    \/ Exit(p)

NextConcurrent == \E p \in Procs : StepConcurrent(p)

SpecConcurrent == InitConcurrent /\ [][NextConcurrent]_vars

(***************************************************************************)
(* The parser harness: parseResponse applied to one generated response     *)
(***************************************************************************)
InitParse ==
    /\ rev \in Revisions
    /\ InitMachine
    /\ slot = File("absent")
    /\ block \in BlockForms
    /\ layout \in Layouts
    /\ entries \in EntryLists
    /\ response = ResponseText(block, entries, layout)
    /\ yaml = NoYaml
    /\ parsed = NotParsed

Parse(y) ==
    /\ ~parsed.done
    /\ parsed' = [done |-> TRUE, result |-> parseResponse(rev, response, y)]
    /\ yaml' = y
    /\ UNCHANGED <<rev, response, entries, block, layout>>
    /\ UNCHANGED machineVars

NextParse == \E y \in YamlFor(rev) : Parse(y)

SpecParse == InitParse /\ [][NextParse]_vars

(***************************************************************************)
(* The entry harness: parseResponse applied to a response with a valid     *)
(* code block whose views section holds one odd entry among entries as the *)
(* system prompt writes them, or entries in another surface syntax         *)
(***************************************************************************)
GoodForms ==
    { Entry("front", <<"0", "0", "0">>, "150"),
      Entry("back", <<"180", "0", "0">>, "") }

\* an entry that declares distance 0, one with four angle items of which one
\* is not a number, one with an empty angle item, one with an empty name
OddForms ==
    { Entry("detail", <<"45", "35", "15">>, "0"),
      Entry("x", <<"0", "x", "0", "0">>, "50"),
      Entry("side", <<"0", "", "0">>, ""),
      Entry("", <<"0", "0", "0">>, "50") }

\* the lists of up to MaxEntries entries with exactly one odd entry
OddEntryLists ==
    UNION { { ds \in [1..n -> GoodForms \cup OddForms] :
                Cardinality({k \in 1..n : ds[k] \in OddForms}) = 1 } :
            n \in 1..MaxEntries }

\* an entry with a negative angle, as the system prompt of part_001 writes
\* the view right, and one with a hyphen in its name
SignedForms ==
    { Entry("right", <<"0", "-90", "0">>, "150"),
      Entry("top-left", <<"0", "0", "0">>, "150") }

\* the lists of up to MaxEntries entries with exactly one such entry
SignedEntryLists ==
    UNION { { ds \in [1..n -> GoodForms \cup SignedForms] :
                Cardinality({k \in 1..n : ds[k] \in SignedForms}) = 1 } :
            n \in 1..MaxEntries }

\* a code block with the word "views:" in a comment of the code, and one with
\* it in a sentence before the block
StrayKeyForms == {"commented", "preface"}

\* the lists of up to MaxEntries entries as the system prompt writes them
GoodEntryLists == UNION {[1..n -> GoodForms] : n \in 1..MaxEntries}

InitEntries ==
    /\ rev \in Revisions
    /\ InitMachine
    /\ slot = File("absent")
    /\ \/ block = "canonical" /\ layout \in Layouts /\ entries \in OddEntryLists
       \/ block = "canonical" /\ layout \in Styles /\ entries \in GoodEntryLists
       \/ block = "canonical" /\ layout \in Layouts /\ entries \in SignedEntryLists
       \/ block \in StrayKeyForms /\ layout \in Layouts /\ entries \in GoodEntryLists
    /\ response = ResponseText(block, entries, layout)
    /\ yaml = NoYaml
    /\ parsed = NotParsed

SpecEntries == InitEntries /\ [][NextParse]_vars

(***************************************************************************)
(* Claims.  A step of process p is a call of iterate when p is idle before *)
(* it and runs iterate after it; it is the reply of the model when         *)
(* fullResponse[p] changes.                                                *)
(***************************************************************************)
IterateCalled(p) == pc[p] = "idle" /\ cmd'[p] = "iterate"

Replied(p) == pc[p] \in {"generate", "iterate"} /\ fullResponse'[p] # fullResponse[p]

\* an entry with a name and three numeric angle components
WellFormed(d) == d.name # "" /\ Len(d.angles) = 3

RECURSIVE WellFormedOf(_)
WellFormedOf(ds) ==
    IF ds = <<>> THEN <<>>
    ELSE (IF WellFormed(Head(ds)) THEN <<Head(ds)>> ELSE <<>>) \o WellFormedOf(Tail(ds))

\* the view a well-formed entry stands for: its name in lower case, its
\* angles, its distance or 150 when it declares none
ExpectedView(d) ==
    ViewSpec(<<toLowerCase(d.name)>>, [i \in 1..3 |-> NumTable[d.angles[i]]],
             IF d.dist = "" THEN 150 ELSE NumTable[d.dist])

ExpectedViews(ds) == [i \in 1..Len(ds) |-> ExpectedView(ds[i])]

\* the response was built with both markers, written as the system prompt
\* writes them
ValidBlock == block \in {"canonical", "sphere"}

\* the text holds neither marker, in either case
NoCodeBlock(r) == \A i \in 1..Len(r) : ~IsOpenTag(r[i], TRUE) /\ ~IsCloseTag(r[i], TRUE)

\* C1: iterate called when the latest iteration of the persisted session has
\* no renders fails with NoRendersYet: the command ends there, no request to
\* the model is made and the state file is not written.
C1_NoRendersYet ==
    [][\A p \in Procs :
          (/\ IterateCalled(p)
           /\ slot.kind = "json"
           /\ Len(slot.data.iterations) > 0
           /\ Last(slot.data.iterations).renders = <<>>)
          => (/\ err'[p] = "NoRendersYet"
              /\ pc'[p] = "done"
              /\ request'[p] = <<>>
              /\ slot' = slot)]_vars

\* C2: in part_000 and part_001, a response with a valid code block and at
\* least three well-formed entries (exactly three included) parses to exactly
\* the views of those entries, in order, names in lower case, the default
\* distance only where the entry declares none.
C2_ParsedViewsKept ==
    (/\ parsed.done
     /\ rev \in {"part_000", "part_001"}
     /\ ValidBlock
     /\ Len(WellFormedOf(entries)) >= 3)
    => (/\ parsed.result.ok
        /\ parsed.result.views = ExpectedViews(WellFormedOf(entries)))

\* C3: in part_000, part_001 and the first revision of index.ts, a response
\* with a valid code block and at most two well-formed entries parses to the
\* default set front, top, iso and nothing else.
C3_DefaultsOnTooFew ==
    (/\ parsed.done
     /\ rev \in {"part_000", "part_001", "index_a"}
     /\ ValidBlock
     /\ Len(WellFormedOf(entries)) <= 2)
    => (/\ parsed.result.ok
        /\ parsed.result.views = defaultViews_part_000)

\* C4: a response without the start marker, or without the end marker, makes
\* parseResponse throw MissingCodeBlock and return neither code nor views,
\* whatever views section follows, in every revision.
C4_MissingCodeBlock ==
    (parsed.done /\ block \in {"none", "unclosed"})
    => parsed.result = [ok |-> FALSE, err |-> "MissingCodeBlock",
                        code |-> <<>>, views |-> <<>>]

\* a response without markers and with three well-formed entries was refused
C4_Witness ==
    /\ parsed.done
    /\ block = "none"
    /\ Len(WellFormedOf(entries)) >= 3
    /\ ~parsed.result.ok
    /\ parsed.result.err = "MissingCodeBlock"

\* C5: when the reply of the model holds no code block, create and iterate
\* end with MissingCodeBlock, push no iteration and leave the state file as
\* it was.
C5_NoCodeBlockNoWrite ==
    [][\A p \in Procs :
          (Replied(p) /\ NoCodeBlock(fullResponse'[p]))
          => (/\ err'[p] = "MissingCodeBlock"
              /\ pc'[p] = "done"
              /\ state'[p] = state[p]
              /\ slot' = slot)]_vars

\* a create failed on the missing code block while the state file holds the
\* session, with its iteration, of an earlier create
C5_Witness ==
    \E p \in Procs :
        /\ pc[p] = "done"
        /\ cmd[p] = "create"
        /\ err[p] = "MissingCodeBlock"
        /\ NoCodeBlock(fullResponse[p])
        /\ slot.kind = "json"
        /\ Len(slot.data.iterations) >= 1
        /\ slot.data.id # state[p].data.id

PreconditionErrors == {"NoSessionFound", "EmptyHistory", "NoRendersYet"}

\* C6: an iterate that ends with NoSessionFound, EmptyHistory or NoRendersYet
\* writes nothing: neither the step that raises the error nor any step until
\* the process has ended changes the state file.
C6_PreconditionFailureNoWrite ==
    [][\A p \in Procs :
          (err[p] \in PreconditionErrors \/ err'[p] \in PreconditionErrors)
          => slot' = slot]_vars

\* an iterate was refused for want of renders; the session is still on file
C6_Witness ==
    \E p \in Procs :
        /\ pc[p] = "done"
        /\ cmd[p] = "iterate"
        /\ err[p] = "NoRendersYet"
        /\ slot.kind = "json"
        /\ Len(slot.data.iterations) >= 1

\* C7: iterate called when the state file is absent, unreadable or not JSON
\* ends with NoSessionFound, the same in the three cases, and makes no
\* request to the model.
C7_NoSessionFound ==
    [][\A p \in Procs :
          (IterateCalled(p) /\ slot.kind \in {"absent", "unreadable", "corrupt"})
          => (/\ err'[p] = "NoSessionFound"
              /\ pc'[p] = "done"
              /\ request'[p] = <<>>)]_vars

\* an iterate found a state file that is not JSON and was refused
C7_Witness ==
    \E p \in Procs :
        /\ pc[p] = "done"
        /\ cmd[p] = "iterate"
        /\ err[p] = "NoSessionFound"
        /\ slot.kind = "corrupt"
        /\ request[p] = <<>>

\* C8: iterate called when the session on file has no iterations ends with
\* EmptyHistory and makes no request to the model.
C8_EmptyHistory ==
    [][\A p \in Procs :
          (IterateCalled(p) /\ slot.kind = "json" /\ Len(slot.data.iterations) = 0)
          => (/\ err'[p] = "EmptyHistory"
              /\ pc'[p] = "done"
              /\ request'[p] = <<>>)]_vars

\* an iterate loaded a session without iterations and was refused
C8_Witness ==
    \E p \in Procs :
        /\ pc[p] = "done"
        /\ cmd[p] = "iterate"
        /\ err[p] = "EmptyHistory"
        /\ slot.kind = "json"
        /\ slot.data.iterations = <<>>
        /\ request[p] = <<>>

\* C9: when generateModel(prompt) has returned, the state file holds a session
\* with that prompt and exactly one iteration, which has no renders and no
\* feedback; nothing of the session the file held before is in it.
C9_FreshSession ==
    \A p \in Procs :
        (cmd[p] = "create" /\ pc[p] = "render")
        => (/\ slot.kind = "json"
            /\ slot.data.originalPrompt = arg[p]
            /\ Len(slot.data.iterations) = 1
            /\ slot.data.iterations[1].renders = <<>>
            /\ slot.data.iterations[1].feedback = NoFeedback
            /\ slot.data.iterations[1].code = model[p].code)

\* generateModel has returned for a create that followed an earlier command
\* which had left a session with an iteration on file
C9_Witness ==
    \E p \in Procs :
        /\ cmd[p] = "create"
        /\ pc[p] = "render"
        /\ clock >= 2
        /\ slot.data.id >= 2
        /\ Len(slot.data.iterations) = 1

\* C10: the step in which iterateModel(feedback) succeeds on a session of n
\* iterations leaves on file the same n iterations followed by one more, which
\* carries the feedback, the code of the model just parsed and no renders.
C10_IterationAppended ==
    [][\A p \in Procs :
          (pc[p] = "iterate" /\ pc'[p] = "render")
          => (/\ slot.kind = "json"
              /\ slot'.kind = "json"
              /\ slot'.data.id = slot.data.id
              /\ slot'.data.originalPrompt = slot.data.originalPrompt
              /\ Len(slot'.data.iterations) = Len(slot.data.iterations) + 1
              /\ SubSeq(slot'.data.iterations, 1, Len(slot.data.iterations))
                    = slot.data.iterations
              /\ Last(slot'.data.iterations).feedback = arg[p]
              /\ Last(slot'.data.iterations).code = model'[p].code
              /\ Last(slot'.data.iterations).renders = <<>>)]_vars

\* iterateModel has returned: the file holds two iterations or more, the last
\* with the feedback of the command and no renders
C10_Witness ==
    \E p \in Procs :
        /\ cmd[p] = "iterate"
        /\ pc[p] = "render"
        /\ slot.kind = "json"
        /\ Len(slot.data.iterations) >= 2
        /\ Last(slot.data.iterations).feedback = arg[p]
        /\ Last(slot.data.iterations).renders = <<>>
        /\ Len(slot.data.iterations[1].renders) >= 1

\* the positions of the lexeme x in the text t
PositionsOf(t, x) == {i \in 1..Len(t) : t[i] = x}

\* the positions at which the lexemes c start in the text t
StartsOf(t, c) == {i \in 1..(Len(t) - Len(c) + 1) : SubSeq(t, i, i + Len(c) - 1) = c}

\* the indices of the image parts of a request
ImageIndices(req) == {i \in 1..Len(req) : req[i].type = "image"}

\* C11: the request iterateModel builds names the original prompt, then the
\* code of the latest iteration, then the feedback, and after that text come
\* the images of the renders.
C11_RequestOrder ==
    \A p \in Procs :
        pc[p] = "iterate"
        => LET t == request[p][1].text
               latest == Last(state[p].data.iterations)
           IN  /\ request[p][1].type = "text"
               /\ \E i \in PositionsOf(t, state[p].data.originalPrompt) :
                  \E j \in StartsOf(t, latest.code) :
                  \E k \in PositionsOf(t, arg[p]) :
                      i < j /\ j + Len(latest.code) - 1 < k
               /\ \A n \in ImageIndices(request[p]) : n > 1

\* C12: the request iterateModel builds holds one image per render of the
\* latest iteration on file, in the order of the renders, each followed by a
\* text part that names the view of the render; it holds no other image, so
\* none of an earlier iteration.
C12_OneImagePerRender ==
    \A p \in Procs :
        pc[p] = "iterate"
        => LET rs == Last(slot.data.iterations).renders
               req == request[p]
               imgs == ImageIndices(req)
           IN  /\ Cardinality(imgs) = Len(rs)
               /\ \A k \in 1..Len(rs) :
                     LET i == Nth(imgs, k)
                     IN  /\ req[i].data = rs[k].image
                         /\ i < Len(req)
                         /\ req[i + 1].type = "text"
                         /\ StartsOf(req[i + 1].text, rs[k].view) # {}

\* a request was built on a session of two iterations whose renders differ:
\* three renders or more of the latest one are in it
C12_Witness ==
    \E p \in Procs :
        /\ pc[p] = "iterate"
        /\ Len(slot.data.iterations) >= 2
        /\ Len(Last(slot.data.iterations).renders) >= 3
        /\ Len(slot.data.iterations[1].renders) >= 1
        /\ slot.data.iterations[1].renders[1].image
              # Last(slot.data.iterations).renders[1].image
        /\ Cardinality(ImageIndices(request[p])) >= 3

\* C13: when render has returned, its result holds one RenderResult per view
\* of the model, in the order of the views, the i-th carrying the name of the
\* i-th view.
C13_OneResultPerView ==
    \A p \in Procs :
        pc[p] \in {"attach_read", "attach_write"}
        => /\ Len(renders[p]) = Len(model[p].views)
           /\ \A i \in 1..Len(renders[p]) : renders[p][i].view = model[p].views[i].name

\* render has returned the renders of a model of three views or more, no two
\* of the same name
C13_Witness ==
    \E p \in Procs :
        /\ pc[p] = "attach_read"
        /\ Len(model[p].views) >= 3
        /\ Len(renders[p]) >= 3
        /\ \A i, j \in 1..Len(model[p].views) :
              i # j => model[p].views[i].name # model[p].views[j].name

\* the message m is made of the name of the view and, after it, the cause
NamesViewThenCause(m, view) ==
    \E cause \in Causes(rev, view) :
    \E i \in StartsOf(m, view.name) :
    \E j \in StartsOf(m, cause) : i + Len(view.name) - 1 < j

\* C14: when the render of a view has failed, the command has ended with
\* RenderFailed, the message of the error names the failed view and then the
\* cause, and the renders made earlier in the call are not attached: the
\* latest iteration on file still has no renders.
C14_RenderFailedWhole ==
    \A p \in Procs :
        (pc[p] = "done" /\ err[p] = "RenderFailed")
        => /\ NamesViewThenCause(message[p], model[p].views[viewIdx[p]])
           /\ slot.kind = "json"
           /\ Last(slot.data.iterations).renders = <<>>

\* C15: once render has returned or thrown, whatever step failed after the
\* scratch directory was made, the scratch directory of the call is gone.
C15_WorkspaceRemoved ==
    \A p \in Procs :
        pc[p] \in {"attach_read", "attach_write", "done"} => ~workspace[p]

\* render throws in this step of process p
RenderThrows(p) ==
    /\ pc[p] \in {"render", "render_loop"}
    /\ err'[p] \in {"IOError", "RenderFailed"}

\* C16: a step in which render throws leaves on file the iteration the
\* command has just appended, with no renders; and an iterate called on a
\* session left that way, its latest iteration without renders, ends with
\* NoRendersYet.
C16_FailedBatchThenNoRendersYet ==
    [][\A p \in Procs :
          /\ RenderThrows(p)
             => (/\ slot' = slot
                 /\ slot.kind = "json"
                 /\ Last(slot.data.iterations) = Last(state[p].data.iterations)
                 /\ Last(slot.data.iterations).renders = <<>>)
          /\ (/\ IterateCalled(p)
              /\ slot.kind = "json"
              /\ Len(slot.data.iterations) > 0
              /\ Last(slot.data.iterations).renders = <<>>)
             => (err'[p] = "NoRendersYet" /\ pc'[p] = "done")]_vars

\* C17: when a create command has ended without error, the session on file
\* has exactly one iteration, and the renders of that iteration are one per
\* view of the model generateModel returned, in the order of the views, each
\* with the name of its view.
C17_CreateAttachesRenders ==
    \A p \in Procs :
        (cmd[p] = "create" /\ pc[p] = "done" /\ err[p] = "none")
        => /\ slot.kind = "json"
           /\ slot.data.originalPrompt = arg[p]
           /\ Len(slot.data.iterations) = 1
           /\ Len(slot.data.iterations[1].renders) = Len(model[p].views)
           /\ \A i \in 1..Len(model[p].views) :
                 slot.data.iterations[1].renders[i].view = model[p].views[i].name

\* a create command has ended without error for a model of three views
C17_Witness ==
    \E p \in Procs :
        /\ cmd[p] = "create"
        /\ pc[p] = "done"
        /\ err[p] = "none"
        /\ Len(model[p].views) = 3
        /\ Len(slot.data.iterations[1].renders) = 3

\* the state file holds the same session before and after the step
SameSession == slot.kind = "json" /\ slot'.kind = "json" /\ slot'.data.id = slot.data.id

\* C18: with the commands run one after the other, no step changes the
\* renders of an iteration that has renders: the renders of an iteration
\* change only from none to the ones attached.
C18_RendersAttachedOnce ==
    [][SameSession
       => \A i \in 1..Len(slot.data.iterations) :
             (i <= Len(slot'.data.iterations) /\ slot.data.iterations[i].renders # <<>>)
             => slot'.data.iterations[i].renders = slot.data.iterations[i].renders]_vars

\* the renders of a second iteration have been attached: the session holds
\* two iterations with renders, and the renders are not the same
C18_Witness ==
    /\ slot.kind = "json"
    /\ Len(slot.data.iterations) >= 2
    /\ slot.data.iterations[1].renders # <<>>
    /\ slot.data.iterations[2].renders # <<>>
    /\ slot.data.iterations[1].renders # slot.data.iterations[2].renders

\* C19: the step that writes the state file after render changes, of the
\* session on file, the renders of the last iteration and nothing else: id,
\* prompt, number of iterations, the earlier iterations and the code,
\* feedback and timestamp of the last one stay; on a session without
\* iterations it writes nothing.
C19_AttachChangesOnlyRenders ==
    [][\A p \in Procs :
          pc[p] = "attach_write"
          => /\ slot.kind = "json"
             /\ IF slot.data.iterations = <<>> THEN slot' = slot
                ELSE /\ slot'.kind = "json"
                     /\ slot'.data =
                           [slot.data EXCEPT
                               !.iterations[Len(slot.data.iterations)].renders = renders[p]]]_vars

\* an iterate command has attached its renders to the second iteration of a
\* session, which carries the feedback of the command
C19_Witness ==
    \E p \in Procs :
        /\ cmd[p] = "iterate"
        /\ pc[p] = "done"
        /\ err[p] = "none"
        /\ slot.kind = "json"
        /\ Len(slot.data.iterations) >= 2
        /\ Last(slot.data.iterations).renders = renders[p]
        /\ renders[p] # <<>>
        /\ Last(slot.data.iterations).feedback = arg[p]
        /\ slot.data.iterations[1].renders # <<>>

\* in this step process p attaches the renders to the iteration i of the
\* session on file, which is the one its own command has appended
AttachesOwn(p, i) ==
    /\ pc[p] = "attach_write"
    /\ i = Len(slot.data.iterations)
    /\ i = Len(state[p].data.iterations)
    /\ slot.data.iterations[i] = state[p].data.iterations[i]
    /\ slot'.data.iterations[i] = [slot.data.iterations[i] EXCEPT !.renders = renders[p]]

\* C20: no step of an iterate command, whether the command succeeds or fails,
\* changes the id or the prompt of the session on file, removes an iteration
\* or changes one that was on file before; the only iteration a step changes
\* is the one the command itself appended, when its renders are attached.
C20_AppendOnly ==
    [][\A p \in Procs :
          ((cmd[p] = "iterate" \/ cmd'[p] = "iterate") /\ slot.kind = "json")
          => /\ slot'.kind = "json"
             /\ slot'.data.id = slot.data.id
             /\ slot'.data.originalPrompt = slot.data.originalPrompt
             /\ Len(slot'.data.iterations) >= Len(slot.data.iterations)
             /\ \A i \in 1..Len(slot.data.iterations) :
                   \/ slot'.data.iterations[i] = slot.data.iterations[i]
                   \/ AttachesOwn(p, i)]_vars

\* an iterate command appended a second iteration and then failed in render:
\* the first iteration, with its renders, is still on file
C20_Witness ==
    \E p \in Procs :
        /\ cmd[p] = "iterate"
        /\ pc[p] = "done"
        /\ err[p] = "RenderFailed"
        /\ slot.kind = "json"
        /\ Len(slot.data.iterations) = 2
        /\ slot.data.iterations[1].renders # <<>>
        /\ slot.data.iterations[2].feedback = arg[p]

\* process p runs a command that has appended its iteration to the session
Appended(p) ==
    \/ pc[p] \in {"render", "render_loop", "attach_read", "attach_write"}
    \/ pc[p] = "done" /\ err[p] \in {"none", "IOError", "RenderFailed", "AttachFailed"}

\* C21: in the session on file the first iteration carries no feedback and
\* every later one carries a feedback text; and the iteration a command has
\* appended carries the feedback that command was called with (none for
\* create).
C21_FeedbackOfIterations ==
    slot.kind = "json"
    => /\ \A i \in 1..Len(slot.data.iterations) :
             IF i = 1 THEN slot.data.iterations[i].feedback = NoFeedback
             ELSE slot.data.iterations[i].feedback \in Feedbacks
       /\ \A p \in Procs :
             Appended(p)
             => Last(slot.data.iterations).feedback
                   = (IF cmd[p] = "iterate" THEN arg[p] ELSE NoFeedback)

\* a session begun by a create of this run has had a second iteration
\* appended by an iterate, which is rendering
C21_Witness ==
    \E p \in Procs :
        /\ cmd[p] = "iterate"
        /\ pc[p] = "render_loop"
        /\ slot.kind = "json"
        /\ slot.data.id >= 1
        /\ Len(slot.data.iterations) = 2
        /\ slot.data.iterations[1].feedback = NoFeedback
        /\ slot.data.iterations[2].feedback = arg[p]

\* C22: every render made so far was made with a camera whose distance is at
\* least the minimum viewing distance 100, whatever the name of the view; for
\* a view whose distance is below 100 the camera carries 100.
C22_DistanceFloor ==
    \A p \in Procs :
        \A i \in 1..Len(renders[p]) :
            LET d == cameraDistance(rev, renders[p][i].image.camera)
            IN  /\ d >= baseDistance
                /\ model[p].views[i].distance < baseDistance => d = baseDistance

\* an entry with a name, exactly three angle items, all of them numbers, and
\* no declared distance of 0
Valid(d) ==
    /\ d.name # ""
    /\ Len(d.angles) = 3
    /\ \A i \in 1..Len(d.angles) : IsDigits(d.angles[i])
    /\ d.dist # "0"

\* C23: every view parseResponse returns has a name, three angle components
\* and a distance above 0, and none of them comes from an entry that declares
\* distance 0 or whose angle list is not exactly three numbers: such an entry
\* is skipped.
C23_ViewSpecsValid ==
    (parsed.done /\ parsed.result.ok)
    => \A i \in 1..Len(parsed.result.views) :
          LET v == parsed.result.views[i]
          IN  /\ v.name # <<>>
              /\ Len(v.angle) = 3
              /\ v.distance > 0
              /\ \A k \in 1..Len(entries) :
                    ~Valid(entries[k]) => v.name # <<entries[k].name>>

\* C24: the code parseResponse returns is not empty and neither starts nor
\* ends with whitespace; a response whose code block is empty or holds only
\* whitespace is refused.
C24_CodeNonEmptyTrimmed ==
    parsed.done
    => /\ parsed.result.ok
          => (/\ parsed.result.code # <<>>
              /\ ~IsWs(parsed.result.code[1])
              /\ ~IsWs(Last(parsed.result.code)))
       /\ block \in {"empty", "blank"} => ~parsed.result.ok

\* C25: in the revisions that parse the entries themselves, a malformed
\* entry in the views section of a response with a valid code block does not
\* make parseResponse fail, and the result is the one the same response gives
\* with the malformed entries taken out.
C25_EntriesIndependent ==
    (parsed.done /\ ValidBlock /\ rev # "index_b")
    => /\ parsed.result.ok
       /\ parsed.result
             = parseResponse(rev, ResponseText(block, WellFormedOf(entries), layout), yaml)

\* C26: parseResponse fails exactly when the code block is missing: a
\* response with a valid code block yields a model whatever its views section
\* holds (no section, some malformed entries, only malformed entries), and a
\* response without the start or the end marker yields MissingCodeBlock.
C26_FailsOnlyOnMissingBlock ==
    parsed.done
    => /\ ValidBlock => parsed.result.ok
       /\ block \in {"none", "unclosed"}
             => (~parsed.result.ok /\ parsed.result.err = "MissingCodeBlock")

\* C27: a response whose markers are written in upper case parses to the
\* result of the same response with the markers as the system prompt writes
\* them.
C27_MarkersAnyCase ==
    (parsed.done /\ block = "upper")
    => parsed.result
          = parseResponse(rev, ResponseText("canonical", entries, layout), yaml)

\* C28: in the revisions that parse the entries themselves, a response whose
\* entries are written with unquoted names, with "=" after the keys, or with
\* space-separated angles parses to the result of the same response with the
\* entries written with quoted names, ":" and comma-separated angles.
C28_SurfaceSyntaxes ==
    (parsed.done /\ layout \in Styles /\ rev # "index_b")
    => /\ parsed.result.ok
       /\ parsed.result
             = parseResponse(rev, ResponseText(block, entries, "inline"), yaml)

\* an iteration of the session on file holds a render that was made from
\* other code than the code of the iteration
Mismatched ==
    /\ slot.kind = "json"
    /\ \E i \in 1..Len(slot.data.iterations) :
       \E k \in 1..Len(slot.data.iterations[i].renders) :
           slot.data.iterations[i].renders[k].image.code # slot.data.iterations[i].code

\* the iteration process p has appended is not in the session on file
Missing(p) ==
    \/ slot.kind # "json"
    \/ slot.data.id # state[p].data.id
    \/ \A i \in 1..Len(slot.data.iterations) :
          slot.data.iterations[i].timestamp # Last(state[p].data.iterations).timestamp

\* the command of process p is between its addIteration and its end, and the
\* iteration it appended has been overwritten
Lost(p) ==
    /\ pc[p] \in {"render", "render_loop", "attach_read", "attach_write"}
    /\ Missing(p)

\* C29: as long as no command was started while another was running, no
\* iteration on file holds renders of other code than its own and no running
\* command has lost the iteration it appended; with commands that overlap
\* both can happen (C29_Witness).
C29_SerializedIsSafe ==
    ~overlap => (~Mismatched /\ \A p \in Procs : ~Lost(p))

\* two commands overlapped: one has ended without error, the iteration it had
\* appended is gone from the file, and an iteration on file holds renders of
\* other code than its own
C29_Witness ==
    /\ overlap
    /\ Mismatched
    /\ \E p \in Procs : pc[p] = "done" /\ err[p] = "none" /\ Missing(p)

\* C30: inside the loop of render, the images of the views before the next
\* one are in renders, one per view and in the order of the views; a turn of
\* the loop runs openscad for one view, the next in that order, and only its
\* image is added, after the ones already there.
C30_OneViewAtATime ==
    [][\A p \in Procs :
          pc[p] = "render_loop"
          => /\ Len(renders[p]) = viewIdx[p] - 1
             /\ \A i \in 1..Len(renders[p]) : renders[p][i].view = model[p].views[i].name
             /\ renders'[p] # renders[p] /\ pc'[p] = "render_loop"
                   => (/\ renders'[p]
                             = Append(renders[p],
                                      RenderResult(model[p].views[viewIdx[p]].name,
                                                   Last(renders'[p]).image))
                       /\ viewIdx'[p] = viewIdx[p] + 1)]_vars

\* two views of a model of four views, no two of the same name, have been
\* rendered and the loop has not finished
C30_Witness ==
    \E p \in Procs :
        /\ pc[p] = "render_loop"
        /\ Len(model[p].views) = 4
        /\ viewIdx[p] = 3
        /\ renders[p][2].view = model[p].views[2].name
        /\ \A i, j \in 1..4 : i # j => model[p].views[i].name # model[p].views[j].name

\* C31: a command sends its request to the model once, when it starts, and
\* never goes back to waiting for the model; the loop of render moves on by
\* one view per turn and never back, so openscad is run at most once per
\* view; the step in which the request, the parse, render or the attach step
\* first fails ends the command, and a command that has ended does nothing
\* more than exit.
C31_NoRetry ==
    [][\A p \in Procs :
          /\ (request'[p] # request[p] /\ request'[p] # <<>>) => pc[p] = "idle"
          /\ pc'[p] \in {"generate", "iterate"}
                => (pc[p] = "idle" \/ (pc'[p] = pc[p] /\ err'[p] = err[p]))
          /\ (pc[p] = "render_loop" /\ pc'[p] = "render_loop")
                => viewIdx'[p] \in {viewIdx[p], viewIdx[p] + 1}
          /\ pc'[p] = "render_loop" => pc[p] \in {"render", "render_loop"}
          /\ (err[p] = "none" /\ err'[p] # "none") => pc'[p] = "done"
          /\ pc[p] = "done"
                => (pc'[p] \in {"done", "idle"} /\ slot' = slot
                    /\ request'[p] \in {request[p], <<>>})]_vars

\* the render of the third view of a model failed: the command has ended,
\* the two renders made before are all there is, and the request to the
\* model was made
C31_Witness ==
    \E p \in Procs :
        /\ pc[p] = "done"
        /\ err[p] = "RenderFailed"
        /\ request[p] # <<>>
        /\ viewIdx[p] = 3
        /\ Len(renders[p]) = 2
        /\ Len(model[p].views) >= 3

\* the values of the --camera argument that render of part_000 writes for the
\* three names of its switch
PolicyTable ==
    [n \in {<<"front">>, <<"top">>, <<"iso">>} |->
        CASE n = <<"front">> -> <<0, 0, 0, 0, 5, 0, 100>>
          [] n = <<"top">> -> <<0, 0, 0, 90, 0, 10, 100>>
          [] n = <<"iso">> -> <<20, 0, 0, 35, 0, 25, 120>>]

\* angles and distances a view may carry
OtherAngles == {<<0, 0, 0>>, <<90, 0, 0>>, <<45, 35, 15>>, <<180, 0, 0>>}

OtherDistances == {50, 100, 150, 200, 250}

SignedValue(a) == IF a = "-90" THEN 0 - 90 ELSE NumTable[a]

\* the view an entry of the system prompt's form stands for, a sign in its
\* angles and a hyphen in its name kept
SignedView(d) ==
    ViewSpec(LowerAll(Lex(d.name)), [i \in 1..3 |-> SignedValue(d.angles[i])],
             IF d.dist = "" THEN 150 ELSE NumTable[d.dist])

\* C33: in part_000 and part_001, a views section of four or more well-formed
\* entries of which one has a negative angle component or a hyphen in its
\* name parses to one view per entry, in order, the negative angle and the
\* whole name in the view of that entry; the entry is not split and not
\* skipped.
C33_SignedEntryKept ==
    (/\ parsed.done
     /\ rev \in {"part_000", "part_001"}
     /\ Len(entries) >= 4
     /\ \E k \in 1..Len(entries) : entries[k] \in SignedForms)
    => (/\ parsed.result.ok
        /\ parsed.result.views = [i \in 1..Len(entries) |-> SignedView(entries[i])])

\* C34: in part_000, a response whose code holds the word "views:" in a
\* comment, or that has it in a sentence before the code block, parses to
\* the views of the entries of the views section after the block (the
\* default views for fewer than three entries): the earlier "views:" neither
\* adds to nor replaces them.
C34_ViewsAfterBlockOnly ==
    (/\ parsed.done
     /\ rev = "part_000"
     /\ block \in StrayKeyForms)
    => (/\ parsed.result.ok
        /\ parsed.result.views = IF Len(entries) >= 3 THEN ExpectedViews(entries)
                                 ELSE defaultViews_part_000)

\* C35: every step that writes the state file writes a session with at least
\* one iteration: the session of generateModel, whose history is empty, is
\* written only after addIteration has pushed to it.
C35_WrittenStateHasIteration ==
    [][slot' # slot
          => (/\ slot'.kind = "json"
              /\ Len(slot'.data.iterations) >= 1)]_vars

\* create has written its session over a state file that was not there or
\* held no iteration: the file holds the new session with one iteration, and
\* the command goes on to render
C35_Witness ==
    \E p \in Procs :
        /\ cmd[p] = "create"
        /\ pc[p] = "render"
        /\ slot = saveState(state[p])
        /\ slot.data.originalPrompt = arg[p]
        /\ Len(slot.data.iterations) = 1
        /\ slot.data.iterations[1].renders = <<>>

\* C36: the step that completes a create or an iterate command leaves a
\* state file whose latest iteration holds one render per view of the model,
\* three at least, so that the checks of an iterate that loads this file do
\* not fail with NoRendersYet.
C36_RendersAfterSuccess ==
    [][\A p \in Procs :
          (pc[p] = "attach_write" /\ pc'[p] = "done" /\ err'[p] = "none")
          => (/\ slot'.kind = "json"
              /\ Len(Last(slot'.data.iterations).renders) = Len(model[p].views)
              /\ Len(model[p].views) >= 3
              /\ iterateGuard(rev, loadState(slot').state) # "NoRendersYet")]_vars

====
